---- MODULE Spec2Model ----
(***************************************************************************)
(* Model of the Google Play deploy step.                                   *)
(*   src/main.go    - configuration, validation and the publishing run     *)
(*   src/publish.go - expansion files, cleanup of lower tracks, releases   *)
(* Strings the code takes apart (paths, descriptors, decimal numbers) are  *)
(* sequences of tokens, so that Split, TrimSpace, HasPrefix and ParseFloat *)
(* are computed as the code computes them.                                 *)
(***************************************************************************)
EXTENDS Integers, Sequences, FiniteSets, TLC

\* ------------------------------------------------------------------ bounds
MaxApks == 2        \* artifacts of one run
MaxCode == 2        \* version codes are 1..MaxCode
MaxLen == 2         \* version codes of one release
MaxReleases == 2    \* releases of one track
MaxTracks == 3      \* tracks the list call returns
MaxEntryLen == 4    \* tokens of an expansion-file descriptor

\* ------------------------------------------------------- string utilities
\* strings.Split(s, sep) for a one-token separator
RECURSIVE Split(_, _)
Split(s, sep) ==
    IF \A i \in 1..Len(s) : s[i] # sep
    THEN <<s>>
    ELSE LET k == CHOOSE i \in 1..Len(s) :
                      s[i] = sep /\ \A j \in 1..(i - 1) : s[j] # sep
         IN  <<SubSeq(s, 1, k - 1)>> \o Split(SubSeq(s, k + 1, Len(s)), sep)

\* strings.Join(parts, sep)
RECURSIVE Join(_, _)
Join(parts, sep) ==
    IF Len(parts) = 0 THEN <<>>
    ELSE IF Len(parts) = 1 THEN parts[1]
    ELSE parts[1] \o sep \o Join(Tail(parts), sep)

\* strings.HasPrefix(s, prefix)
HasPrefix(s, prefix) ==
    Len(s) >= Len(prefix) /\ SubSeq(s, 1, Len(prefix)) = prefix

\* strings.TrimPrefix(s, prefix)
TrimPrefix(s, prefix) ==
    IF HasPrefix(s, prefix) THEN SubSeq(s, Len(prefix) + 1, Len(s)) ELSE s

\* strings.TrimSpace(s)
RECURSIVE TrimLeft(_)
TrimLeft(s) == IF Len(s) > 0 /\ s[1] = " " THEN TrimLeft(Tail(s)) ELSE s
RECURSIVE TrimRight(_)
TrimRight(s) ==
    IF Len(s) > 0 /\ s[Len(s)] = " " THEN TrimRight(SubSeq(s, 1, Len(s) - 1)) ELSE s
TrimSpace(s) == TrimRight(TrimLeft(s))

\* all sequences over S of length lo..hi
SeqsOf(S, lo, hi) == UNION {[1..n -> S] : n \in lo..hi}

\* ------------------------------------------------------------ file system
FilePrefix == <<"file://">>
ExistingPaths == {<<"key.json">>, <<"key.p12">>, <<"a.apk">>}
\* paths whose stat fails with an error other than "does not exist"
UnstatablePaths == {<<"noperm.json">>, <<"noperm.apk">>}
\* pathutil.IsPathExists(pth) -> [exist, err]
IsPathExists(pth) ==
    [exist |-> pth \in ExistingPaths, err |-> pth \in UnstatablePaths]

\* ---------------------------------------------------------- configuration
JSONKeyPaths == {<<>>, <<"file://", "key.json">>, <<"file://", "missing.json">>,
                 <<"file://", "noperm.json">>, <<"https://host/key.json">>}
P12KeyPaths == {<<>>, <<"file://", "key.p12">>, <<"https://host/key.p12">>}
ApkNames == {"a.apk", "missing.apk", "noperm.apk"}
ApkPathValues ==
    {<<>>} \cup {Join([i \in 1..Len(ns) |-> <<ns[i]>>], <<"|">>) :
                    ns \in SeqsOf(ApkNames, 1, MaxApks)}
TrackValues == {"", "alpha", "beta", "rollout", "production"}
UserFractionValues ==
    {<<>>, <<"0">>, <<"0", ".", "2", "5">>, <<"1">>, <<"1", ".", "5">>, <<"-", "1">>,
     <<"a", "b", "c">>}

\* createConfigsModelFromEnvs: every environment the step can be started in
ConfigsModel ==
    [ServiceAccountEmail : {"", "svc@example.com"},
     P12KeyPath : P12KeyPaths,
     JSONKeyPath : JSONKeyPaths,
     PackageName : {"", "com.example.app"},
     ApkPath : ApkPathValues,
     Track : TrackValues,
     UserFraction : UserFractionValues]

\* the key-file check shared by the JSON and the P12 branch of validate
KeyFileError(keyPath, what) ==
    IF HasPrefix(keyPath, FilePrefix)
    THEN LET st == IsPathExists(TrimPrefix(keyPath, FilePrefix))
         IN  IF st.err THEN "Failed to check if " \o what \o " exist"
             ELSE IF ~st.exist THEN what \o " not exist"
             ELSE ""
    ELSE ""

\* the first APK path that fails the existence check, "" when none
RECURSIVE ApkPathsError(_)
ApkPathsError(apkPaths) ==
    IF Len(apkPaths) = 0 THEN ""
    ELSE LET st == IsPathExists(apkPaths[1])
         IN  IF st.err THEN "Failed to check if APK exist"
             ELSE IF ~st.exist THEN "APK not exist"
             ELSE ApkPathsError(Tail(apkPaths))

\* ConfigsModel.validate: "" is nil, anything else the error
validate(configs) ==
    LET keyErr ==
            IF configs.JSONKeyPath # <<>>
            THEN KeyFileError(configs.JSONKeyPath, "JSONKeyPath")
            ELSE IF configs.P12KeyPath # <<>>
            THEN LET e == KeyFileError(configs.P12KeyPath, "P12KeyPath")
                 IN  IF e # "" THEN e
                     ELSE IF configs.ServiceAccountEmail = ""
                     THEN "No ServiceAccountEmail parameter specified"
                     ELSE ""
            ELSE "No JSONKeyPath nor P12KeyPath provided"
    IN  IF keyErr # "" THEN keyErr
        ELSE IF configs.PackageName = "" THEN "No PackageName parameter specified"
        ELSE IF configs.ApkPath = <<>> THEN "No ApkPath parameter specified"
        ELSE IF ApkPathsError(Split(configs.ApkPath, "|")) # ""
        THEN ApkPathsError(Split(configs.ApkPath, "|"))
        ELSE IF configs.Track = "" THEN "No Track parameter specified"
        ELSE IF configs.Track = "rollout" /\ configs.UserFraction = <<>>
        THEN "No UserFraction parameter specified"
        ELSE ""

\* --------------------------------------------------------- decimal numbers
Digits == {"0", "1", "2", "3", "4", "5", "6", "7", "8", "9"}
DigitValue(c) ==
    CASE c = "0" -> 0 [] c = "1" -> 1 [] c = "2" -> 2 [] c = "3" -> 3
      [] c = "4" -> 4 [] c = "5" -> 5 [] c = "6" -> 6 [] c = "7" -> 7
      [] c = "8" -> 8 [] c = "9" -> 9
RECURSIVE DigitsValue(_)
DigitsValue(ds) ==
    IF Len(ds) = 0 THEN 0
    ELSE 10 * DigitsValue(SubSeq(ds, 1, Len(ds) - 1)) + DigitValue(ds[Len(ds)])
RECURSIVE Pow10(_)
Pow10(n) == IF n = 0 THEN 1 ELSE 10 * Pow10(n - 1)

\* strconv.ParseFloat(s, 64) on plain decimals [+-]ddd[.ddd]: the value is the
\* exact fraction num/den; err is set when s is no number
ParseFloat(s) ==
    LET neg == Len(s) > 0 /\ s[1] = "-"
        body == IF Len(s) > 0 /\ s[1] \in {"-", "+"} THEN Tail(s) ELSE s
        parts == Split(body, ".")
        int == parts[1]
        frac == IF Len(parts) = 2 THEN parts[2] ELSE <<>>
        wellFormed ==
            /\ Len(parts) <= 2
            /\ Len(int) + Len(frac) > 0
            /\ \A i \in 1..Len(int) : int[i] \in Digits
            /\ \A i \in 1..Len(frac) : frac[i] \in Digits
    IN  IF ~wellFormed THEN [err |-> TRUE, num |-> 0, den |-> 1]
        ELSE [err |-> FALSE,
              num |-> (IF neg THEN -1 ELSE 1) * DigitsValue(int \o frac),
              den |-> Pow10(Len(frac))]

\* ------------------------------------------ publish.go: pure functions
releaseStatusCompleted == "completed"
releaseStatusInProgress == "inProgress"
alphaTrackName == "alpha"
betaTrackName == "beta"
rolloutTrackName == "rollout"
productionTrackName == "production"

\* a float64 read from a decimal string, as the exact fraction num/den
FloatZero == [num |-> 0, den |-> 1]
FloatIsZero(f) == f.num = 0

\* sort.Slice(s, less) with less(a, b) == s[a] < s[b]: insertion into a sorted prefix
RECURSIVE InsertSorted(_, _)
InsertSorted(x, s) ==
    IF Len(s) = 0 THEN <<x>>
    ELSE IF x < s[1] THEN <<x>> \o s
    ELSE <<s[1]>> \o InsertSorted(x, Tail(s))
RECURSIVE SortSlice(_)
SortSlice(s) == IF Len(s) = 0 THEN <<>> ELSE InsertSorted(s[1], SortSlice(Tail(s)))

\* the loop of hasShadowingVersions over i < len(newVersionCodes): "true", "false", or
\* "panic" when currentVersionCodes[i] is read past the end of the slice
RECURSIVE ShadowingLoop(_, _, _)
ShadowingLoop(cur, new, i) ==
    IF i > Len(new) THEN "false"
    ELSE IF i > Len(cur) THEN "panic"
    ELSE IF cur[i] < new[i] THEN "true"
    ELSE ShadowingLoop(cur, new, i + 1)

\* hasShadowingVersions with a fault: the new version codes are compared unsorted
hasShadowingVersions_NewUnsorted(currentVersionCodes, newVersionCodes) ==
    LET cur == SortSlice(currentVersionCodes)
    IN  [result |-> ShadowingLoop(cur, newVersionCodes, 1),
         currentVersionCodes |-> cur,
         newVersionCodes |-> newVersionCodes,
         compared |-> <<Len(cur), Len(newVersionCodes)>>]

\* hasShadowingVersions with a fault: the sorted current version codes are
\* written into the new version codes
hasShadowingVersions_IntoNew(currentVersionCodes, newVersionCodes) ==
    LET cur == SortSlice(currentVersionCodes)
        new == SortSlice(newVersionCodes)
    IN  [result |-> ShadowingLoop(cur, new, 1),
         currentVersionCodes |-> cur,
         newVersionCodes |-> cur,
         compared |-> <<Len(cur), Len(new)>>]

\* hasShadowingVersions: both slices are sorted in place, so the caller's lists
\* come back reordered together with the answer; compared holds the lengths of
\* the two slices the loop over the positions runs on
hasShadowingVersions(currentVersionCodes, newVersionCodes) ==
    LET cur == SortSlice(currentVersionCodes)
        new == SortSlice(newVersionCodes)
    IN  [result |-> ShadowingLoop(cur, new, 1),
         currentVersionCodes |-> cur,
         newVersionCodes |-> new,
         compared |-> <<Len(cur), Len(new)>>]

\* hasBlockingVersionInRelease with a fault: the lengths are not looked at
hasBlockingVersionInRelease_NoLengthCheck(release, newVersionCodes) ==
    hasShadowingVersions(release.VersionCodes, newVersionCodes)

\* hasBlockingVersionInRelease(release, newVersionCodes); compared is empty when
\* hasShadowingVersions is not called
hasBlockingVersionInRelease(release, newVersionCodes) ==
    IF Len(release.VersionCodes) # Len(newVersionCodes)
    THEN [result |-> "true",
          currentVersionCodes |-> release.VersionCodes,
          newVersionCodes |-> newVersionCodes,
          compared |-> <<>>]
    ELSE hasShadowingVersions(release.VersionCodes, newVersionCodes)

\* releaseStatusFromConfig(userFraction)
releaseStatusFromConfig(userFraction) ==
    IF ~FloatIsZero(userFraction) THEN releaseStatusInProgress ELSE releaseStatusCompleted

\* createTrackRelease with an empty whatsNewsDir (updateListing attaches nothing);
\* UserFraction is an omitempty field: the zero value is a fraction that is absent
createTrackRelease(versionCodes, userFraction) ==
    [Name |-> "",
     VersionCodes |-> versionCodes,
     Status |-> releaseStatusFromConfig(userFraction),
     UserFraction |-> IF ~FloatIsZero(userFraction) THEN userFraction ELSE FloatZero,
     ReleaseNotes |-> <<>>,
     ForceSendFields |-> <<>>]

\* possibleTrackNamesToUpdate with a fault: beta is its own candidate
possibleTrackNamesToUpdate_BetaItself(track) ==
    IF track = betaTrackName THEN <<alphaTrackName, betaTrackName>>
    ELSE IF track \in {rolloutTrackName, productionTrackName}
    THEN <<alphaTrackName, betaTrackName>>
    ELSE <<>>

\* the switch of trackNamesToUpdate
possibleTrackNamesToUpdate(track) ==
    IF track = betaTrackName THEN <<alphaTrackName>>
    ELSE IF track \in {rolloutTrackName, productionTrackName}
    THEN <<alphaTrackName, betaTrackName>>
    ELSE <<>>

\* the inner loop of trackNamesToUpdate for one existing track
RECURSIVE MatchingNames(_, _)
MatchingNames(name, possible) ==
    IF Len(possible) = 0 THEN <<>>
    ELSE (IF possible[1] = name THEN <<possible[1]>> ELSE <<>>)
         \o MatchingNames(name, Tail(possible))

\* trackNamesToUpdate(track, tracks); tracks is the list of the tracks' names
RECURSIVE trackNamesToUpdate(_, _)
trackNamesToUpdate(track, tracks) ==
    IF Len(tracks) = 0 THEN <<>>
    ELSE MatchingNames(tracks[1], possibleTrackNamesToUpdate(track))
         \o trackNamesToUpdate(track, Tail(tracks))

\* validateExpansionFileConfig(expFileEntry)
validateExpansionFileConfig(expFileEntry) ==
    LET cleanExpFileConfigEntry == TrimSpace(expFileEntry)
    IN  \/ HasPrefix(cleanExpFileConfigEntry, <<"main", ":">>)
        \/ HasPrefix(cleanExpFileConfigEntry, <<"patch", ":">>)

\* expFileInfo(expFileConfigEntry) -> [path, type, err]
expFileInfo(expFileConfigEntry) ==
    LET expansionFilePathSplit == Split(expFileConfigEntry, ":")
    IN  IF Len(expansionFilePathSplit) < 2
        THEN [path |-> <<>>, type |-> <<>>, err |-> "malformed expansion file path"]
        ELSE [path |-> TrimSpace(Join(Tail(expansionFilePathSplit), <<>>)),
              type |-> TrimSpace(expansionFilePathSplit[1]),
              err |-> ""]

\* ------------------------------------------------------------------ state
VARIABLES
    \* the publishing run of main.go
    configs,        \* the ConfigsModel read from the environment
    pc,             \* the statement main() is at
    calls,          \* the remote calls issued so far, in order
    diag,           \* the log.Error diagnostic emitted, "" when none
    exitCode,       \* the process exit status, "running" until it exits
    appEdit,        \* the edit object held, "nil" when there is none
    versionCode,    \* the version codes the uploads returned
    apkIdx,         \* position of the upload loop in apkPaths
    \* trackNamesToUpdate
    tTrack,         \* the target track name
    tTracks,        \* the names of the tracks the list call returned
    tNames,         \* the value returned
    tPc,
    \* hasBlockingVersionInRelease
    sRelease,       \* the release examined, as it is on return
    sNew,           \* the new version codes, as they are on return
    sResult,        \* "true" / "false" / "panic", "none" before the call
    sGiven,         \* the version codes of both arguments at the call
    sCompared,      \* the lengths the position loop ran on, <<>> when not reached
    \* untrackFromTracks and the release built after it
    uPc,            \* the statement the cleanup is at
    candidates,     \* parameter trackNamesToUpdate
    uploaded,       \* the version codes the uploads returned, in upload order
    versionCodes,   \* parameter versionCodes (the same slice the caller holds)
    trackIdx,       \* position of the loop over the candidate tracks
    releasesLeft,   \* releases of the fetched track the loop has not reached yet
    fetched,        \* the release the loop body last ran on, as the get call returned
                    \* it; NoRelease outside the loop over track.Releases
    release,        \* the same release after the loop body, as it is patched back
    blocking,       \* what hasBlockingVersionInRelease answered for it
    anyTrackUpdated,
    clearedInTrack, \* whether a release of the current track was cleared
    report,         \* the outcome logged for the current track
    uCalls,         \* the remote calls issued, in order
    uErr,           \* the error untrackFromTracks returned, "" for nil
    newRelease,     \* the release createTrackRelease built
    \* uploadExpansionFiles
    expFileEntry,   \* parameter expFileEntry
    expPc,
    expErr,         \* the error returned, "" for nil
    expFile,        \* [path, type] the entry was parsed to
    expCalls        \* the remote calls issued

mainVars == <<configs, pc, calls, diag, exitCode, appEdit, versionCode, apkIdx>>
tracksVars == <<tTrack, tTracks, tNames, tPc>>
shadowVars == <<sRelease, sNew, sResult, sGiven, sCompared>>
untrackVars == <<uPc, candidates, uploaded, versionCodes, trackIdx, releasesLeft,
                 fetched, release, blocking, anyTrackUpdated, clearedInTrack,
                 report, uCalls, uErr, newRelease>>
expVars == <<expFileEntry, expPc, expErr, expFile, expCalls>>
vars == <<mainVars, tracksVars, shadowVars, untrackVars, expVars>>

NoRelease ==
    [Name |-> "", VersionCodes |-> <<>>, Status |-> "", UserFraction |-> FloatZero,
     ReleaseNotes |-> <<>>, ForceSendFields |-> <<>>]

\* a part of the program that a specification does not run stays as it is here
MainIdle ==
    /\ configs = [ServiceAccountEmail |-> "", P12KeyPath |-> <<>>, JSONKeyPath |-> <<>>,
                  PackageName |-> "", ApkPath |-> <<>>, Track |-> "",
                  UserFraction |-> <<>>]
    /\ pc = "idle" /\ calls = <<>> /\ diag = "" /\ exitCode = "running"
    /\ appEdit = "nil" /\ versionCode = <<>> /\ apkIdx = 0
TracksIdle == tTrack = "" /\ tTracks = <<>> /\ tNames = <<>> /\ tPc = "idle"
ShadowIdle ==
    /\ sRelease = NoRelease /\ sNew = <<>> /\ sResult = "none"
    /\ sGiven = [current |-> <<>>, new |-> <<>>]
    /\ sCompared = <<>>
UntrackIdle ==
    /\ uPc = "idle" /\ candidates = <<>> /\ uploaded = <<>> /\ versionCodes = <<>>
    /\ trackIdx = 0 /\ releasesLeft = 0 /\ fetched = NoRelease /\ release = NoRelease
    /\ blocking = FALSE /\ anyTrackUpdated = FALSE /\ clearedInTrack = FALSE
    /\ report = "" /\ uCalls = <<>> /\ uErr = "" /\ newRelease = NoRelease
ExpIdle ==
    /\ expFileEntry = <<>> /\ expPc = "idle" /\ expErr = ""
    /\ expFile = [path |-> <<>>, type |-> <<>>] /\ expCalls = <<>>

MainFrame == UNCHANGED <<tracksVars, shadowVars, untrackVars, expVars>>
TracksFrame == UNCHANGED <<mainVars, shadowVars, untrackVars, expVars>>
ShadowFrame == UNCHANGED <<mainVars, tracksVars, untrackVars, expVars>>
UntrackFrame == UNCHANGED <<mainVars, tracksVars, shadowVars, expVars>>
ExpFrame == UNCHANGED <<mainVars, tracksVars, shadowVars, untrackVars>>

\* ------------------------------------------------------- main (src/main.go)
apkPaths == Split(configs.ApkPath, "|")

\* log.Error(...) followed by os.Exit(1)
Fatal(msg) ==
    /\ diag' = msg
    /\ exitCode' = "1"
    /\ pc' = "exited"

Call(op, ok) == [op |-> op, ok |-> ok]

\* which key the client is created from, and whether it has to be downloaded
KeyKind == IF configs.JSONKeyPath # <<>> THEN "json" ELSE "p12"
KeyPath == IF configs.JSONKeyPath # <<>> THEN configs.JSONKeyPath ELSE configs.P12KeyPath
KeyIsRemote == ~HasPrefix(KeyPath, FilePrefix)
KeyFetched == IF KeyIsRemote THEN Append(calls, Call("download", TRUE)) ELSE calls

MainInit ==
    /\ configs \in ConfigsModel
    /\ pc = "validate"
    /\ calls = <<>>
    /\ diag = ""
    /\ exitCode = "running"
    /\ appEdit = "nil"
    /\ versionCode = <<>>
    /\ apkIdx = 0

\* main.go:196-201
ValidateInputs ==
    /\ pc = "validate"
    /\ IF validate(configs) # ""
       THEN Fatal("Issue with input: " \o validate(configs))
       ELSE pc' = "createClient" /\ UNCHANGED <<diag, exitCode>>
    /\ UNCHANGED <<configs, calls, appEdit, versionCode, apkIdx>>
    /\ MainFrame

\* main.go:216-220, 242-246
TmpDirFails ==
    /\ pc = "createClient"
    /\ KeyIsRemote
    /\ Fatal("Failed to create tmp dir")
    /\ UNCHANGED <<configs, calls, appEdit, versionCode, apkIdx>>
    /\ MainFrame

\* main.go:224-227, 250-253
DownloadKeyFails ==
    /\ pc = "createClient"
    /\ KeyIsRemote
    /\ calls' = Append(calls, Call("download", FALSE))
    /\ Fatal("Failed to download " \o KeyKind \o " key file")
    /\ UNCHANGED <<configs, appEdit, versionCode, apkIdx>>
    /\ MainFrame

\* main.go:230-234, 256-260
AuthConfigFails ==
    /\ pc = "createClient"
    /\ calls' = KeyFetched
    /\ Fatal("Failed to create auth config from " \o KeyKind \o " key file")
    /\ UNCHANGED <<configs, appEdit, versionCode, apkIdx>>
    /\ MainFrame

\* main.go:264-269
ServiceFails ==
    /\ pc = "createClient"
    /\ calls' = KeyFetched
    /\ Fatal("Failed to create publisher service")
    /\ UNCHANGED <<configs, appEdit, versionCode, apkIdx>>
    /\ MainFrame

\* main.go:208-271
ClientCreated ==
    /\ pc = "createClient"
    /\ calls' = KeyFetched
    /\ pc' = "insertEdit"
    /\ UNCHANGED <<configs, diag, exitCode, appEdit, versionCode, apkIdx>>
    /\ MainFrame

\* main.go:279-287
InsertEditFails ==
    /\ pc = "insertEdit"
    /\ calls' = Append(calls, Call("insert", FALSE))
    /\ Fatal("Failed to perform edit insert call")
    /\ UNCHANGED <<configs, appEdit, versionCode, apkIdx>>
    /\ MainFrame

\* main.go:279-298
InsertEdit ==
    /\ pc = "insertEdit"
    /\ calls' = Append(calls, Call("insert", TRUE))
    /\ appEdit' = "edit"
    /\ versionCode' = <<>>
    /\ apkIdx' = 1
    /\ pc' = "uploadApks"
    /\ UNCHANGED <<configs, diag, exitCode>>
    /\ MainFrame

\* main.go:300-304
OpenApkFails ==
    /\ pc = "uploadApks"
    /\ Fatal("Failed to read apk")
    /\ UNCHANGED <<configs, calls, appEdit, versionCode, apkIdx>>
    /\ MainFrame

\* UploadApkFails with a fault: the error is logged and the loop goes on
UploadApkFails_NoExit ==
    /\ pc = "uploadApks"
    /\ calls' = Append(calls, Call("upload", FALSE))
    /\ diag' = "Failed to upload apk"
    /\ apkIdx' = apkIdx + 1
    /\ pc' = IF apkIdx = Len(apkPaths) THEN "updateTrack" ELSE "uploadApks"
    /\ UNCHANGED <<configs, exitCode, appEdit, versionCode>>
    /\ MainFrame

\* main.go:306-315
UploadApkFails ==
    /\ pc = "uploadApks"
    /\ calls' = Append(calls, Call("upload", FALSE))
    /\ Fatal("Failed to upload apk")
    /\ UNCHANGED <<configs, appEdit, versionCode, apkIdx>>
    /\ MainFrame

\* main.go:299-319: one iteration of the upload loop; the backend picks the code
UploadApk ==
    /\ pc = "uploadApks"
    /\ \E code \in 1..MaxCode :
           versionCode' = Append(versionCode, code)
    /\ calls' = Append(calls, Call("upload", TRUE))
    /\ apkIdx' = apkIdx + 1
    /\ pc' = IF apkIdx = Len(apkPaths) THEN "updateTrack" ELSE "uploadApks"
    /\ UNCHANGED <<configs, diag, exitCode, appEdit>>
    /\ MainFrame

\* main.go:334-339
ParseUserFractionFails ==
    /\ pc = "updateTrack"
    /\ configs.Track = "rollout"
    /\ ParseFloat(configs.UserFraction).err
    /\ Fatal("Failed to parse user fraction")
    /\ UNCHANGED <<configs, calls, appEdit, versionCode, apkIdx>>
    /\ MainFrame

\* the rollout guard of main.go:334-341 that lets the update call happen
UserFractionUsable ==
    configs.Track = "rollout" => ~ParseFloat(configs.UserFraction).err

\* main.go:343-348
UpdateTrackFails ==
    /\ pc = "updateTrack"
    /\ UserFractionUsable
    /\ calls' = Append(calls, Call("update", FALSE))
    /\ Fatal("Failed to update track")
    /\ UNCHANGED <<configs, appEdit, versionCode, apkIdx>>
    /\ MainFrame

\* main.go:327-351
UpdateTrack ==
    /\ pc = "updateTrack"
    /\ UserFractionUsable
    /\ calls' = Append(calls, Call("update", TRUE))
    /\ pc' = "commit"
    /\ UNCHANGED <<configs, diag, exitCode, appEdit, versionCode, apkIdx>>
    /\ MainFrame

\* main.go:356-361: Do() returns (nil, err); the arguments of log.Error read
\* appEdit.Id of the nil edit, so the run panics before anything is logged
\* (the Go runtime ends a panicking process with status 2)
CommitFails ==
    /\ pc = "commit"
    /\ calls' = Append(calls, Call("commit", FALSE))
    /\ appEdit' = "nil"
    /\ pc' = "panicked"
    /\ exitCode' = "2"
    /\ UNCHANGED <<configs, diag, versionCode, apkIdx>>
    /\ MainFrame

\* main.go:356-366
Commit ==
    /\ pc = "commit"
    /\ calls' = Append(calls, Call("commit", TRUE))
    /\ pc' = "done"
    /\ exitCode' = "0"
    /\ UNCHANGED <<configs, diag, appEdit, versionCode, apkIdx>>
    /\ MainFrame

Next ==
    \/ ValidateInputs
    \/ TmpDirFails \/ DownloadKeyFails \/ AuthConfigFails \/ ServiceFails
    \/ ClientCreated
    \/ InsertEditFails \/ InsertEdit
    \/ OpenApkFails \/ UploadApkFails \/ UploadApk
    \/ ParseUserFractionFails \/ UpdateTrackFails \/ UpdateTrack
    \/ CommitFails \/ Commit

Init == MainInit /\ TracksIdle /\ ShadowIdle /\ UntrackIdle /\ ExpIdle
Spec == Init /\ [][Next]_vars

\* ------------------------------------- trackNamesToUpdate (src/publish.go)
TrackTargets == {"alpha", "beta", "rollout", "production", "internal"}
ListedTrackNames == {"alpha", "beta", "rollout", "production"}

TracksInit ==
    /\ tTrack \in TrackTargets
    /\ tTracks \in SeqsOf(ListedTrackNames, 0, MaxTracks)
    /\ tNames = <<>>
    /\ tPc = "call"

\* publish.go:217-237
ResolveTrackNames ==
    /\ tPc = "call"
    /\ tNames' = trackNamesToUpdate(tTrack, tTracks)
    /\ tPc' = "returned"
    /\ UNCHANGED <<tTrack, tTracks>>
    /\ TracksFrame

InitTracks == TracksInit /\ MainIdle /\ ShadowIdle /\ UntrackIdle /\ ExpIdle
SpecTracks == InitTracks /\ [][ResolveTrackNames]_vars

\* ---------------------------- hasBlockingVersionInRelease (src/publish.go)
VersionLists == SeqsOf(1..MaxCode, 0, MaxLen)

\* releases of the given statuses with some version codes
ReleasesWith(statuses) ==
    [Name : {"r"},
     VersionCodes : VersionLists,
     Status : statuses,
     UserFraction : {FloatZero},
     ReleaseNotes : {<<"en-US">>},
     ForceSendFields : {<<>>}]

ShadowInit ==
    /\ sRelease \in ReleasesWith({releaseStatusCompleted, releaseStatusInProgress})
    /\ sNew \in VersionLists
    /\ sResult = "none"
    /\ sGiven = [current |-> sRelease.VersionCodes, new |-> sNew]
    /\ sCompared = <<>>

\* publish.go:272-299: the answer, and both slices as the call leaves them
CheckBlocking ==
    /\ sResult = "none"
    /\ LET r == hasBlockingVersionInRelease(sRelease, sNew)
       IN  /\ sResult' = r.result
           /\ sRelease' = [sRelease EXCEPT !.VersionCodes = r.currentVersionCodes]
           /\ sNew' = r.newVersionCodes
           /\ sCompared' = r.compared
    /\ UNCHANGED sGiven
    /\ ShadowFrame

InitShadow == ShadowInit /\ MainIdle /\ TracksIdle /\ UntrackIdle /\ ExpIdle
SpecShadow == InitShadow /\ [][CheckBlocking]_vars

\* ------------------------------------- untrackFromTracks (src/publish.go)
\* the lists trackNamesToUpdate can hand over for a listing of distinct tracks
DistinctTrackLists ==
    {ts \in SeqsOf(ListedTrackNames, 0, MaxTracks) :
        \A i, j \in 1..Len(ts) : i # j => ts[i] # ts[j]}
CandidateLists ==
    {trackNamesToUpdate(t, ts) : t \in TrackTargets, ts \in DistinctTrackLists}

\* the user fractions the configuration can hand over: the zero value when none
\* is set, or whatever strconv.ParseFloat makes of the configured string
ConfiguredFractions ==
    {FloatZero} \cup
    {[num |-> ParseFloat(str).num, den |-> ParseFloat(str).den] :
        str \in {x \in UserFractionValues : ~ParseFloat(x).err}}

\* the releases a get call returns here: completed ones
Releases == ReleasesWith({releaseStatusCompleted})

UCall(op, track, res) == [op |-> op, track |-> track, res |-> res]

UntrackInit ==
    /\ uPc = "get"
    /\ candidates \in CandidateLists
    /\ uploaded \in SeqsOf(1..MaxCode, 1, MaxApks)
    /\ versionCodes = uploaded
    /\ trackIdx = 1
    /\ releasesLeft = 0
    /\ fetched = NoRelease
    /\ release = NoRelease
    /\ blocking = FALSE
    /\ anyTrackUpdated = FALSE
    /\ clearedInTrack = FALSE
    /\ report = ""
    /\ uCalls = <<>>
    /\ uErr = ""
    /\ newRelease = NoRelease

\* publish.go:243-248
GetTrackFails ==
    /\ uPc = "get"
    /\ trackIdx <= Len(candidates)
    /\ uCalls' = Append(uCalls, UCall("get", candidates[trackIdx], "error"))
    /\ uErr' = "failed to get track (" \o candidates[trackIdx] \o ")"
    /\ uPc' = "returned"
    /\ UNCHANGED <<candidates, uploaded, versionCodes, trackIdx, releasesLeft, fetched,
                   release, blocking, anyTrackUpdated, clearedInTrack, report,
                   newRelease>>
    /\ UntrackFrame

\* publish.go:243-245: the track arrives with some releases; the content of each
\* is drawn when the loop over track.Releases reaches it
GetTrack ==
    /\ uPc = "get"
    /\ trackIdx <= Len(candidates)
    /\ uCalls' = Append(uCalls, UCall("get", candidates[trackIdx], "ok"))
    /\ releasesLeft' \in 0..MaxReleases
    /\ clearedInTrack' = FALSE
    /\ fetched' = NoRelease
    /\ release' = NoRelease
    /\ blocking' = FALSE
    /\ uPc' = "releases"
    /\ UNCHANGED <<candidates, uploaded, versionCodes, trackIdx, anyTrackUpdated,
                   report, uErr, newRelease>>
    /\ UntrackFrame

\* publish.go:249-256: the loop body for one release
CheckRelease ==
    /\ uPc = "releases"
    /\ releasesLeft > 0
    /\ \E rel \in Releases :
         LET r == hasBlockingVersionInRelease(rel, versionCodes)
             isBlocking == r.result = "true"
         IN  /\ fetched' = rel
             /\ blocking' = isBlocking
             /\ release' =
                  IF isBlocking
                  THEN [rel EXCEPT !.VersionCodes = <<>>,
                                   !.ForceSendFields = <<"VersionCodes">>]
                  ELSE [rel EXCEPT !.VersionCodes = r.currentVersionCodes]
             /\ versionCodes' = r.newVersionCodes
             /\ anyTrackUpdated' = (anyTrackUpdated \/ isBlocking)
             /\ clearedInTrack' = (clearedInTrack \/ isBlocking)
    /\ releasesLeft' = releasesLeft - 1
    /\ UNCHANGED <<uPc, candidates, uploaded, trackIdx, report, uCalls, uErr,
                   newRelease>>
    /\ UntrackFrame

\* publish.go:258-262
Reported ==
    IF anyTrackUpdated THEN "Desired versions deactivated"
    ELSE "No blocking apk version found"

\* PatchTrackFails with a fault: the error of the patch call is dropped
PatchTrackFails_Ignored ==
    /\ uPc = "releases"
    /\ releasesLeft = 0
    /\ report' = Reported
    /\ fetched' = NoRelease /\ release' = NoRelease /\ blocking' = FALSE
    /\ uCalls' = Append(uCalls, UCall("patch", candidates[trackIdx], "error"))
    /\ trackIdx' = trackIdx + 1
    /\ uPc' = "get"
    /\ UNCHANGED <<candidates, uploaded, versionCodes, releasesLeft,
                   anyTrackUpdated, clearedInTrack, uErr, newRelease>>
    /\ UntrackFrame

\* publish.go:258-266: the patch call ends in an error other than io.EOF
PatchTrackFails ==
    /\ uPc = "releases"
    /\ releasesLeft = 0
    /\ report' = Reported
    /\ fetched' = NoRelease /\ release' = NoRelease /\ blocking' = FALSE
    /\ uCalls' = Append(uCalls, UCall("patch", candidates[trackIdx], "error"))
    /\ uErr' = "failed to update track (" \o candidates[trackIdx] \o ")"
    /\ uPc' = "returned"
    /\ UNCHANGED <<candidates, uploaded, versionCodes, trackIdx, releasesLeft,
                   anyTrackUpdated, clearedInTrack, newRelease>>
    /\ UntrackFrame

\* publish.go:258-267: the patch call succeeds, or ends in io.EOF, which the
\* condition err != nil && err != io.EOF lets pass
PatchTrack ==
    /\ uPc = "releases"
    /\ releasesLeft = 0
    /\ report' = Reported
    /\ fetched' = NoRelease /\ release' = NoRelease /\ blocking' = FALSE
    /\ \E res \in {"ok", "EOF"} :
           uCalls' = Append(uCalls, UCall("patch", candidates[trackIdx], res))
    /\ trackIdx' = trackIdx + 1
    /\ uPc' = "get"
    /\ UNCHANGED <<candidates, uploaded, versionCodes, releasesLeft,
                   anyTrackUpdated, clearedInTrack, uErr, newRelease>>
    /\ UntrackFrame

\* publish.go:243, 268: the loop is through, return nil
UntrackReturns ==
    /\ uPc = "get"
    /\ trackIdx > Len(candidates)
    /\ uErr' = ""
    /\ uPc' = "returned"
    /\ UNCHANGED <<candidates, uploaded, versionCodes, trackIdx, releasesLeft, fetched,
                   release, blocking, anyTrackUpdated, clearedInTrack, report, uCalls,
                   newRelease>>
    /\ UntrackFrame

\* The caller of untrackFromTracks is not part of the sources; the four steps
\* below follow the workflow of spec.md (4.1, 4.5): an error ends the run, otherwise
\* the release is built from the same version-code slice, the target track is
\* updated and the edit committed.
WorkflowAborts ==
    /\ uPc = "returned"
    /\ uErr # ""
    /\ uPc' = "failed"
    /\ UNCHANGED <<candidates, uploaded, versionCodes, trackIdx, releasesLeft, fetched,
                   release, blocking, anyTrackUpdated, clearedInTrack, report, uCalls,
                   uErr, newRelease>>
    /\ UntrackFrame

BuildRelease ==
    /\ uPc = "returned"
    /\ uErr = ""
    /\ \E userFraction \in ConfiguredFractions :
           newRelease' = createTrackRelease(versionCodes, userFraction)
    /\ uPc' = "update"
    /\ UNCHANGED <<candidates, uploaded, versionCodes, trackIdx, releasesLeft, fetched,
                   release, blocking, anyTrackUpdated, clearedInTrack, report, uCalls,
                   uErr>>
    /\ UntrackFrame

UpdateTargetTrack ==
    /\ uPc = "update"
    /\ \E res \in {"ok", "error"} :
         /\ uCalls' = Append(uCalls, UCall("update", "target", res))
         /\ uPc' = IF res = "ok" THEN "commit" ELSE "failed"
    /\ UNCHANGED <<candidates, uploaded, versionCodes, trackIdx, releasesLeft, fetched,
                   release, blocking, anyTrackUpdated, clearedInTrack, report, uErr,
                   newRelease>>
    /\ UntrackFrame

CommitEdit ==
    /\ uPc = "commit"
    /\ \E res \in {"ok", "error"} :
         /\ uCalls' = Append(uCalls, UCall("commit", "", res))
         /\ uPc' = IF res = "ok" THEN "committed" ELSE "failed"
    /\ UNCHANGED <<candidates, uploaded, versionCodes, trackIdx, releasesLeft, fetched,
                   release, blocking, anyTrackUpdated, clearedInTrack, report, uErr,
                   newRelease>>
    /\ UntrackFrame

CleanupNext ==
    \/ GetTrackFails \/ GetTrack \/ CheckRelease \/ PatchTrackFails \/ PatchTrack
    \/ UntrackReturns \/ WorkflowAborts \/ BuildRelease \/ UpdateTargetTrack
    \/ CommitEdit

InitCleanup == UntrackInit /\ MainIdle /\ TracksIdle /\ ShadowIdle /\ ExpIdle
SpecCleanup == InitCleanup /\ [][CleanupNext]_vars

\* ----------------------------------- uploadExpansionFiles (src/publish.go)
\* a descriptor is a sequence of tokens: the words main, patch and badtype, a
\* path piece, the colon and the blank
ExpTokens == {"main", "patch", "badtype", "/x", ":", " "}

ExpInit ==
    /\ expFileEntry \in SeqsOf(ExpTokens, 0, MaxEntryLen)
    /\ expPc = "call"
    /\ expErr = ""
    /\ expFile = [path |-> <<>>, type |-> <<>>]
    /\ expCalls = <<>>

cleanExpFileConfigEntry == TrimSpace(expFileEntry)
ExpInfo == expFileInfo(cleanExpFileConfigEntry)
ExpAccepted == validateExpansionFileConfig(cleanExpFileConfigEntry) /\ ExpInfo.err = ""

\* publish.go:30-38
ExpRejected ==
    /\ expPc = "call"
    /\ ~ExpAccepted
    /\ expErr' = IF ~validateExpansionFileConfig(cleanExpFileConfigEntry)
                 THEN "invalid expansion file config"
                 ELSE ExpInfo.err
    /\ expPc' = "returned"
    /\ UNCHANGED <<expFileEntry, expFile, expCalls>>
    /\ ExpFrame

\* publish.go:35-42
ExpOpenFails ==
    /\ expPc = "call"
    /\ ExpAccepted
    /\ expFile' = [path |-> ExpInfo.path, type |-> ExpInfo.type]
    /\ expErr' = "failed to read expansion file"
    /\ expPc' = "returned"
    /\ UNCHANGED <<expFileEntry, expCalls>>
    /\ ExpFrame

\* publish.go:35-51
ExpUpload ==
    /\ expPc = "call"
    /\ ExpAccepted
    /\ expFile' = [path |-> ExpInfo.path, type |-> ExpInfo.type]
    /\ \E ok \in BOOLEAN :
         /\ expCalls' = <<Call("expansionfiles.upload", ok)>>
         /\ expErr' = IF ok THEN "" ELSE "failed to upload expansion file"
    /\ expPc' = "returned"
    /\ UNCHANGED expFileEntry
    /\ ExpFrame

ExpNext == ExpRejected \/ ExpOpenFails \/ ExpUpload

InitExp == ExpInit /\ MainIdle /\ TracksIdle /\ ShadowIdle /\ UntrackIdle
SpecExp == InitExp /\ [][ExpNext]_vars

\* ================================================================ claims
Range(f) == {f[i] : i \in DOMAIN f}
FailedRun == pc \in {"exited", "panicked"}

\* ---- C1 (Spec)
\* the state a run is in when a later upload failed after an earlier one succeeded
C1_Witness ==
    /\ pc = "exited"
    /\ Len(calls) = 3
    /\ calls[2] = Call("upload", TRUE)
    /\ calls[3] = Call("upload", FALSE)

C1_CommitOnlyAfterSuccess ==
    \A i \in 1..Len(calls) :
        calls[i].op = "commit" =>
            /\ \A j \in 1..(i - 1) : calls[j].ok
            /\ \E j \in 1..(i - 1) : calls[j].op = "insert"
            /\ Cardinality({j \in 1..(i - 1) : calls[j].op = "upload"}) = Len(apkPaths)
            /\ \E j \in 1..(i - 1) : calls[j].op = "update"

C1_FailedCallEndsRun ==
    \A i \in 1..Len(calls) :
        ~calls[i].ok => i = Len(calls) /\ FailedRun

\* C1: the commit call is issued only after the open-edit call, one upload per
\* artifact and the track update all succeeded; a failed call is the last call of
\* the run and leaves it in a failed state; a failed state is never left and no
\* call is issued from it.
C1_FailStop ==
    /\ [](C1_CommitOnlyAfterSuccess /\ C1_FailedCallEndsRun)
    /\ [][FailedRun => (pc' = pc /\ calls' = calls)]_vars

\* ---- C6 (Spec)
EditCalls == SelectSeq(calls, LAMBDA c : c.op # "download")
AuxiliaryOps == {"expansionfiles.upload", "deobfuscationfiles.upload"}

\* C6: a run that ends with a successful commit has issued, in this order, one
\* open-edit call, one upload per configured artifact, any number of auxiliary
\* uploads, exactly one list-tracks call, any number of cleanup patch calls, one
\* track update and, last, one commit.
C6_CallOrder ==
    pc = "done" =>
        LET ops == EditCalls
            n == Len(apkPaths)
            last == Len(ops)
        IN  \E l \in (2 + n)..(last - 2) :
                /\ n >= 1
                /\ ops[1].op = "insert"
                /\ \A i \in 2..(1 + n) : ops[i].op = "upload"
                /\ \A i \in (2 + n)..(l - 1) : ops[i].op \in AuxiliaryOps
                /\ ops[l].op = "list"
                /\ \A i \in (l + 1)..(last - 2) : ops[i].op = "patch"
                /\ ops[last - 1].op = "update"
                /\ ops[last].op = "commit"
                /\ \A i \in 1..last : ops[i].ok

\* ---- C7 (Spec)
\* C7: every fatal error ends the process with a non-zero status after a
\* diagnostic naming the failed step was logged, a zero status is reached only
\* after a successful commit, and no failure (a failed commit included) ends the
\* run in a crash instead of the logged-error exit.
C7_ExitWithDiagnostic ==
    /\ (\E i \in 1..Len(calls) : ~calls[i].ok) => exitCode \notin {"running", "0"}
    /\ exitCode \notin {"running", "0"} => diag # "" /\ pc = "exited"
    /\ exitCode = "0" => Len(calls) > 0 /\ calls[Len(calls)] = Call("commit", TRUE)
    /\ pc # "panicked"

\* ---- C8 (Spec)
ConfigurationDiagnostics ==
    {"Issue with input: " \o validate(configs), "Failed to parse user fraction"}

\* C8: a run that fails because of a configuration value (an unparsable rollout
\* user fraction included) has issued no open-edit and no upload call.
C8_ConfigErrorBeforeCalls ==
    (pc = "exited" /\ diag \in ConfigurationDiagnostics) =>
        \A i \in 1..Len(calls) : calls[i].op \notin {"insert", "upload"}

\* ---- C2 (SpecShadow)
\* the ascending arrangement of s, defined by what it is rather than by how it is made
IsAscending(t) == \A i \in 1..(Len(t) - 1) : t[i] <= t[i + 1]
Occurrences(t, x) == Cardinality({i \in 1..Len(t) : t[i] = x})
Ascending(s) ==
    CHOOSE t \in [1..Len(s) -> Range(s)] :
        IsAscending(t) /\ \A x \in Range(s) : Occurrences(t, x) = Occurrences(s, x)
IsBlockingSpec(A, B) ==
    \/ Len(A) # Len(B)
    \/ \E i \in 1..Len(A) : Ascending(A)[i] < Ascending(B)[i]

\* A = [1,2], B = [2,1]: not blocking, although B[1] > A[1] before sorting
C2_Witness ==
    /\ sGiven = [current |-> <<1, 2>>, new |-> <<2, 1>>]
    /\ sResult = "false"

\* C2: hasBlockingVersionInRelease answers true exactly when the two lists differ
\* in length or, both sorted ascending, some position holds a current code below
\* the new code; otherwise it answers false.
C2_BlockingIffShadowed ==
    sResult # "none" =>
        /\ sResult \in {"true", "false"}
        /\ (sResult = "true") <=> IsBlockingSpec(sGiven.current, sGiven.new)

\* ---- C3 (SpecCleanup)
\* C3: a blocking release goes back with an empty, force-sent version-code list and
\* its other fields as fetched; a release that is not blocking goes back exactly as
\* it was fetched, the order of its version codes included.
C3_ReleaseFrame ==
    fetched # NoRelease =>
        IF blocking
        THEN /\ release.VersionCodes = <<>>
             /\ release.ForceSendFields = <<"VersionCodes">>
             /\ release.Name = fetched.Name
             /\ release.Status = fetched.Status
             /\ release.UserFraction = fetched.UserFraction
             /\ release.ReleaseNotes = fetched.ReleaseNotes
        ELSE release = fetched

\* ---- C4 (SpecTracks)
CandidatesSpec(t) ==
    IF t = "beta" THEN {"alpha"}
    ELSE IF t \in {"rollout", "production"} THEN {"alpha", "beta"}
    ELSE {}

C4_Witness ==
    /\ tPc = "returned"
    /\ tTrack = "production"
    /\ tTracks = <<"alpha", "beta", "production">>
    /\ tNames = <<"alpha", "beta">>

\* C4: as a set, trackNamesToUpdate returns {alpha} for beta, {alpha, beta} for
\* rollout and production and nothing for any other target, each cut down to the
\* tracks that exist; the target itself is never among them.
C4_CandidateTracks ==
    tPc = "returned" =>
        /\ Range(tNames) = CandidatesSpec(tTrack) \cap Range(tTracks)
        /\ tTrack \notin Range(tNames)

\* ---- C5 (SpecCleanup)
FractionPresent(r) == ~FloatIsZero(r.UserFraction)

\* C5: the release built has a user fraction exactly when its status is inProgress,
\* and a fraction that is present lies in (0, 1], whatever fraction the
\* configuration supplied.
C5_FractionInvariant ==
    newRelease # NoRelease =>
        /\ FractionPresent(newRelease) <=> newRelease.Status = "inProgress"
        /\ newRelease.Status \in {"inProgress", "completed"}
        /\ FractionPresent(newRelease) =>
               /\ 0 < newRelease.UserFraction.num
               /\ newRelease.UserFraction.num <= newRelease.UserFraction.den

\* ---- C9 (SpecExp)
ExpValidationErrors == {"invalid expansion file config", "malformed expansion file path"}

\* C9: a descriptor is rejected exactly when it has fewer than two colon-delimited
\* segments or its trimmed first segment is neither main nor patch; any other
\* descriptor is parsed to that trimmed first segment as the type and to the
\* rejoined, trimmed rest as the path.
C9_DescriptorValidation ==
    expPc = "returned" =>
        LET segments == Split(expFileEntry, ":")
            first == TrimSpace(segments[1])
            malformed == Len(segments) < 2 \/ first \notin {<<"main">>, <<"patch">>}
        IN  /\ (expErr \in ExpValidationErrors) <=> malformed
            /\ (expErr \in ExpValidationErrors) => expCalls = <<>>
            /\ ~malformed =>
                   /\ expFile.type = first
                   /\ expFile.path = TrimSpace(Join(Tail(segments), <<>>))

\* ---- C10 (SpecCleanup)
CleanupOps == {"get", "patch"}
CleanupError(c) ==
    IF c.op = "get" THEN "failed to get track (" \o c.track \o ")"
    ELSE "failed to update track (" \o c.track \o ")"

\* a call failed in the cleanup of the first of two candidate tracks
C10_Witness ==
    /\ uPc = "failed"
    /\ Len(candidates) = 2
    /\ Len(uCalls) = 2
    /\ uCalls[2] = UCall("patch", candidates[1], "error")

\* C10 as claimed: a get or patch call that ended in any error (io.EOF included)
\* is the last call, untrackFromTracks has returned the error naming it, and
\* nothing is committed.
C10_AnyFailureFatal ==
    \A i \in 1..Len(uCalls) :
        (uCalls[i].op \in CleanupOps /\ uCalls[i].res # "ok") =>
            /\ i = Len(uCalls)
            /\ uPc \in {"returned", "failed"}
            /\ uErr = CleanupError(uCalls[i])

\* C10 as amended: a get call that failed, or a patch call that ended in an error
\* other than io.EOF, is the last call: untrackFromTracks has returned an error
\* naming the operation and the track, no later track is fetched or patched and
\* nothing is committed. A patch call that ended in io.EOF counts as successful.
C10_FailureFatalExceptEOF ==
    /\ \A i \in 1..Len(uCalls) :
        (uCalls[i].op \in CleanupOps /\ uCalls[i].res = "error") =>
            /\ i = Len(uCalls)
            /\ uPc \in {"returned", "failed"}
            /\ uErr = CleanupError(uCalls[i])
    /\ \A i \in 1..Len(uCalls) :
        (uCalls[i].op = "patch" /\ uCalls[i].res = "EOF" /\ i = Len(uCalls)) =>
            /\ uErr = ""
            /\ uPc \in {"get", "returned", "update"}

\* ---- C11 (SpecCleanup)
\* the patch call of the track the loop is at has just been issued
TrackJustPatched ==
    /\ Len(uCalls) > 0
    /\ uCalls[Len(uCalls)].op = "patch"

\* C11: a fetched candidate track is written back with exactly one patch call, and
\* the outcome logged for it is "Desired versions deactivated" exactly when a
\* release of that same track was cleared, "No blocking apk version found"
\* otherwise.
C11_ReportPerTrack ==
    /\ \A i \in 1..Len(uCalls) :
        (uCalls[i].op = "get" /\ uCalls[i].res = "ok" /\ i < Len(uCalls)) =>
            /\ uCalls[i + 1].op = "patch"
            /\ uCalls[i + 1].track = uCalls[i].track
    /\ TrackJustPatched =>
        /\ report \in {"Desired versions deactivated", "No blocking apk version found"}
        /\ (report = "Desired versions deactivated") <=> clearedInTrack

\* ---- C12 (SpecShadow)
\* a release without version codes against two new ones: the lengths differ
C12_Witness ==
    /\ sGiven.current = <<>>
    /\ Len(sGiven.new) = 2
    /\ sResult = "true"
    /\ sCompared = <<>>

\* the position loop of hasShadowingVersions was entered
ComparisonReached == sCompared # <<>>

\* C12: for every release and every new version-code list, of any lengths, the
\* check answers true or false and never fails, and the position-by-position
\* comparison is reached only with two lists of equal length, so that no index
\* past the end of a list is read.
C12_TotalCheck ==
    sResult # "none" =>
        /\ sResult \in {"true", "false"}
        /\ ComparisonReached <=> Len(sGiven.current) = Len(sGiven.new)
        /\ ComparisonReached =>
            /\ sCompared[1] = sCompared[2]
            /\ sCompared[1] = Len(sGiven.current)

\* ---- C13 (SpecCleanup)
\* the two lists hold every version code the same number of times
SameVersionCodes(s, t) ==
    /\ Len(s) = Len(t)
    /\ \A x \in Range(s) \cup Range(t) : Occurrences(s, x) = Occurrences(t, x)

\* the uploads returned [2,1], a release was compared and the list came back as
\* [1,2], and the release for the target track was built from it
C13_Witness ==
    /\ uploaded = <<2, 1>>
    /\ versionCodes = <<1, 2>>
    /\ \E i \in 1..Len(uCalls) : uCalls[i].op = "patch"
    /\ newRelease # NoRelease
    /\ newRelease.VersionCodes = <<1, 2>>

\* C13: the in-place sort of the shadowing check only reorders: after any number
\* of evaluations over any candidate tracks the new version-code list holds the
\* same version codes, each as often, as the uploads returned, and the release
\* built for the target track carries exactly these, one per uploaded artifact.
C13_UploadedVersionCodesKept ==
    /\ SameVersionCodes(versionCodes, uploaded)
    /\ newRelease # NoRelease =>
        /\ SameVersionCodes(newRelease.VersionCodes, uploaded)
        /\ Len(newRelease.VersionCodes) = Len(uploaded)
====
